---- MODULE Spec2Model ----
(***************************************************************************)
(* Model of the image-editing single page application.                     *)
(*                                                                         *)
(*   App shell   : src/unnamed/part_000 (the App component, its React      *)
(*                 state and its event handlers)                           *)
(*   Edit client : src/services/geminiService.ts (editImageWithPrompt)     *)
(*                                                                         *)
(* Execution model.  The page is single threaded: an event handler runs to *)
(* completion up to its first await, and React commits the state it set    *)
(* before the next user event is delivered, so a handler always sees the   *)
(* state of the latest commit.  Each action below is one such run: a       *)
(* handler up to its await, or the continuation of an await.  A            *)
(* continuation that is already runnable (a promise rejected without       *)
(* waiting for anything) is a microtask: it runs before any further event. *)
(*                                                                         *)
(* Strings.  The user-visible messages of the source are Chinese; string   *)
(* literals here are ASCII, so every message constant is an English        *)
(* rendering of the literal at the source line named beside it.  Message   *)
(* composition (template literals) is concatenation, as in the source.     *)
(*                                                                         *)
(* Optional values (T | null) are sequences of length at most one:         *)
(* Null == << >> and Some(v) == <<v>>.                                     *)
(***************************************************************************)
EXTENDS Integers, Sequences, FiniteSets, TLC

\* ------------------------------------------------------------------------
\* Bounds of the exploration
\* ------------------------------------------------------------------------
\* number of Edit Client invocations explored
MaxRequests == 2
\* number of image loads (fileToBase64 calls) explored
MaxLoads == 2

\* ------------------------------------------------------------------------
\* Optional values and JavaScript truthiness
\* ------------------------------------------------------------------------
Null == << >>
Some(v) == <<v>>

\* !!x for a (string | null) value: null and "" are falsy
Truthy(opt) == opt # Null /\ opt[1] # ""

\* ------------------------------------------------------------------------
\* String helpers (String.prototype.startsWith / split)
\* ------------------------------------------------------------------------
StartsWith(s, p) == Len(s) >= Len(p) /\ SubSeq(s, 1, Len(p)) = p

RECURSIVE SplitAcc(_, _, _, _, _)
SplitAcc(s, sep, i, cur, acc) ==
  IF i > Len(s) THEN Append(acc, cur)
  ELSE IF SubSeq(s, i, i) = sep
       THEN SplitAcc(s, sep, i + 1, "", Append(acc, cur))
       ELSE SplitAcc(s, sep, i + 1, cur \o SubSeq(s, i, i), acc)

\* s.split(sep) for a one-character separator
Split(s, sep) == SplitAcc(s, sep, 1, "", << >>)

\* the value JavaScript yields for an array index past the end
Undefined == "<undefined>"

\* ------------------------------------------------------------------------
\* Messages
\* ------------------------------------------------------------------------
\* part_000:29   '加载图像失败。请尝试其他文件。'
MsgLoadFailed == "Failed to load image. Please try another file."
\* part_000:56   '请上传一张图片并输入提示。'
MsgValidation == "Please upload an image and enter a prompt."
\* part_000:70   '发生未知错误。'
MsgUnknown == "An unknown error occurred."
\* part_000:71   `生成图像失败： ${errorMessage}`
GenerateFailedPrefix == "Failed to generate image: "
\* geminiService.ts:10   "未设置 API_KEY 环境变量"
MsgNoApiKey == "API_KEY environment variable is not set"
\* geminiService.ts:42   "在 Gemini API 的响应中未找到图像数据。"
MsgNoImageData == "No image data found in the Gemini API response."
\* geminiService.ts:46   `Gemini API 错误： ${error.message}`
GeminiErrorPrefix == "Gemini API error: "
\* geminiService.ts:48   "与 Gemini API 通信时发生意外错误。"
MsgUnexpected == "An unexpected error occurred while communicating with the Gemini API."

\* ------------------------------------------------------------------------
\* Inputs
\* ------------------------------------------------------------------------
\* A File: its name, its media type and its content (base64 of its bytes).
Files ==
  { [name |-> "cat.png",   type |-> "image/png",  payload |-> "QUJD"],
    [name |-> "dog.jpg",   type |-> "image/jpeg", payload |-> "eHl6"],
    [name |-> "notes.txt", type |-> "text/plain", payload |-> "aGk="] }

\* values typed into the prompt field
Prompts == { "", "add a hat", " " }

\* What the remote generateContent call can do: answer with a list of parts
\* (a part with inlineData carries an encoded image, a text part does not),
\* answer without candidates, reject with an Error, reject with a non-Error.
TextPart == [inlineData |-> Null]
ImagePart(d) == [inlineData |-> Some(d)]

RemoteOutcomes ==
  { [kind |-> "response", parts |-> << ImagePart("UkVT") >>],
    [kind |-> "response", parts |-> << TextPart, ImagePart("T1VU") >>],
    [kind |-> "response", parts |-> << TextPart >>],
    [kind |-> "response", parts |-> << >>],
    [kind |-> "nocandidates"],
    [kind |-> "error", message |-> "quota exceeded"],
    [kind |-> "nonerror"] }

\* ------------------------------------------------------------------------
\* utils/fileUtils.fileToBase64 (not part of the sources at hand): resolves
\* with the data URL of the file, or rejects.
\* ------------------------------------------------------------------------
fileToBase64(file) == "data:" \o file.type \o ";base64," \o file.payload

\* ------------------------------------------------------------------------
\* Edit client: editImageWithPrompt
\* ------------------------------------------------------------------------
\* a promise settled with a string, or with an Error carrying a message
Resolved(d) == [ok |-> TRUE, value |-> d]
Rejected(m) == [ok |-> FALSE, value |-> m]

\* for (const part of ...parts) if (part.inlineData) return part.inlineData.data
RECURSIVE FirstInlineData(_)
FirstInlineData(parts) ==
  IF parts = << >> THEN Null
  ELSE IF Head(parts).inlineData # Null THEN Head(parts).inlineData
       ELSE FirstInlineData(Tail(parts))

\* the message of the TypeError raised by response.candidates[0] on a
\* response without candidates
MsgTypeError == "Cannot read properties of undefined (reading '0')"

\* What is thrown inside the try block: an Error with a message, or a
\* value that is not an Error; or nothing, and the data is returned.
TryBlock(remote) ==
  CASE remote.kind = "error"        -> [thrown |-> TRUE, isError |-> TRUE, message |-> remote.message]
    [] remote.kind = "nonerror"     -> [thrown |-> TRUE, isError |-> FALSE, message |-> ""]
    [] remote.kind = "nocandidates" -> [thrown |-> TRUE, isError |-> TRUE, message |-> MsgTypeError]
    [] remote.kind = "response"     ->
         IF FirstInlineData(remote.parts) # Null
         THEN [thrown |-> FALSE, data |-> FirstInlineData(remote.parts)[1]]
         ELSE [thrown |-> TRUE, isError |-> TRUE, message |-> MsgNoImageData]

\* the catch block: every Error thrown in the try block is wrapped
CatchBlock(t) ==
  IF t.isError THEN Rejected(GeminiErrorPrefix \o t.message)
  ELSE Rejected(MsgUnexpected)

\* the outcome of the client once the remote call has settled
ClientOutcome(remote) ==
  LET t == TryBlock(remote)
  IN  IF t.thrown THEN CatchBlock(t) ELSE Resolved(t.data)

\* ------------------------------------------------------------------------
\* State
\* ------------------------------------------------------------------------
VARIABLES
  originalImage,   \* part_000:7   string | null
  editedImage,     \* part_000:8   string | null
  prompt,          \* part_000:9   string
  isLoading,       \* part_000:10  boolean
  error,           \* part_000:11  string | null
  originalFile,    \* part_000:12  File | null
  isDraggingOver,  \* part_000:13  boolean
  apiKey,          \* process.env.API_KEY, fixed for the session
  loads,           \* handleImageUpload calls suspended at await fileToBase64
  requests,        \* handleGenerateClick calls suspended at await editImageWithPrompt
  loadsStarted,    \* number of fileToBase64 calls so far
  invocations,     \* number of editImageWithPrompt calls so far
  remoteCalls,     \* number of generateContent calls so far
  last,            \* the handler run or continuation that produced this state
  userActed        \* history: a user event was handled since the latest accepted submit

vars == << originalImage, editedImage, prompt, isLoading, error, originalFile,
           isDraggingOver, apiKey, loads, requests, loadsStarted, invocations,
           remoteCalls, last, userActed >>

shell == << originalImage, editedImage, prompt, isLoading, error, originalFile >>

Init ==
  /\ originalImage = Null
  /\ editedImage = Null
  /\ prompt = ""
  /\ isLoading = FALSE
  /\ error = Null
  /\ originalFile = Null
  /\ isDraggingOver = FALSE
  /\ apiKey \in { "", "secret" }
  /\ loads = {}
  /\ requests = {}
  /\ loadsStarted = 0
  /\ invocations = 0
  /\ remoteCalls = 0
  /\ last = [op |-> "init"]
  /\ userActed = FALSE

\* a continuation is runnable: no user event is delivered before it has run
MicrotaskPending == \E r \in requests : r.stage = "thrown"

\* ------------------------------------------------------------------------
\* Image loading: handleImageUpload and the three ways to reach it
\* ------------------------------------------------------------------------
\* handleImageUpload up to its await: nothing for a null file, otherwise
\* one more suspended fileToBase64 call
handleImageUpload(fopt) ==
  IF fopt = Null
  THEN UNCHANGED << loads, loadsStarted >>
  ELSE /\ loadsStarted' = loadsStarted + 1
       /\ loads' = loads \cup { [id |-> loadsStarted + 1, file |-> fopt[1]] }

\* the change event of the file input; files[0] may be missing
handleFileChange(fopt) ==
  /\ ~MicrotaskPending
  /\ fopt # Null => loadsStarted < MaxLoads
  /\ handleImageUpload(fopt)
  /\ last' = [op |-> "fileChange", file |-> fopt]
  /\ userActed' = TRUE
  /\ UNCHANGED << shell, isDraggingOver, apiKey, requests, invocations, remoteCalls >>

\* the paste event of the document
handlePaste(fopt) ==
  /\ ~MicrotaskPending
  /\ fopt # Null => loadsStarted < MaxLoads
  /\ IF fopt # Null /\ StartsWith(fopt[1].type, "image/")
     THEN handleImageUpload(fopt)
     ELSE UNCHANGED << loads, loadsStarted >>
  /\ last' = [op |-> "paste", file |-> fopt]
  /\ userActed' = TRUE
  /\ UNCHANGED << shell, isDraggingOver, apiKey, requests, invocations, remoteCalls >>

handleDragOver ==
  /\ ~MicrotaskPending
  /\ isDraggingOver' = IF ~Truthy(originalImage) THEN TRUE ELSE isDraggingOver
  /\ last' = [op |-> "dragOver"]
  /\ userActed' = TRUE
  /\ UNCHANGED << shell, apiKey, loads, requests, loadsStarted, invocations, remoteCalls >>

handleDragLeave ==
  /\ ~MicrotaskPending
  /\ isDraggingOver' = FALSE
  /\ last' = [op |-> "dragLeave"]
  /\ userActed' = TRUE
  /\ UNCHANGED << shell, apiKey, loads, requests, loadsStarted, invocations, remoteCalls >>

\* the drop event; fopt is dataTransfer.files[0], if any
handleDrop(fopt) ==
  /\ ~MicrotaskPending
  /\ fopt # Null => loadsStarted < MaxLoads
  /\ isDraggingOver' = FALSE
  /\ IF ~Truthy(originalImage) /\ fopt # Null /\ StartsWith(fopt[1].type, "image/")
     THEN handleImageUpload(fopt)
     ELSE UNCHANGED << loads, loadsStarted >>
  /\ last' = [op |-> "drop", file |-> fopt]
  /\ userActed' = TRUE
  /\ UNCHANGED << shell, apiKey, requests, invocations, remoteCalls >>

\* variant of UploadSettles: a failed load drops the image loaded before
UploadSettlesFailureClears(l, ok) ==
  /\ ~MicrotaskPending
  /\ l \in loads
  /\ loads' = loads \ {l}
  /\ UNCHANGED userActed
  /\ IF ok
     THEN /\ originalImage' = Some(fileToBase64(l.file))
          /\ originalFile' = Some(l.file)
          /\ editedImage' = Null
          /\ error' = Null
          /\ last' = [op |-> "loaded", load |-> l]
     ELSE /\ error' = Some(MsgLoadFailed)
          /\ originalImage' = Null
          /\ originalFile' = Null
          /\ editedImage' = Null
          /\ last' = [op |-> "loadFailed", load |-> l]
  /\ UNCHANGED << prompt, isLoading, isDraggingOver, apiKey, requests,
                  loadsStarted, invocations, remoteCalls >>

\* variant of UploadSettles: a successful load keeps the error
UploadSettlesKeepsError(l, ok) ==
  /\ ~MicrotaskPending
  /\ l \in loads
  /\ loads' = loads \ {l}
  /\ IF ok
     THEN /\ originalImage' = Some(fileToBase64(l.file))
          /\ originalFile' = Some(l.file)
          /\ editedImage' = Null
          /\ last' = [op |-> "loaded", load |-> l]
          /\ UNCHANGED error
     ELSE /\ error' = Some(MsgLoadFailed)
          /\ last' = [op |-> "loadFailed", load |-> l]
          /\ UNCHANGED << originalImage, originalFile, editedImage >>
  /\ UNCHANGED << prompt, isLoading, isDraggingOver, apiKey, requests,
                  loadsStarted, invocations, remoteCalls, userActed >>

\* variant of UploadSettles: a successful load keeps the edited image
UploadSettlesKeepsEdited(l, ok) ==
  /\ ~MicrotaskPending
  /\ l \in loads
  /\ loads' = loads \ {l}
  /\ UNCHANGED userActed
  /\ IF ok
     THEN /\ originalImage' = Some(fileToBase64(l.file))
          /\ originalFile' = Some(l.file)
          /\ error' = Null
          /\ last' = [op |-> "loaded", load |-> l]
          /\ UNCHANGED editedImage
     ELSE /\ error' = Some(MsgLoadFailed)
          /\ last' = [op |-> "loadFailed", load |-> l]
          /\ UNCHANGED << originalImage, originalFile, editedImage >>
  /\ UNCHANGED << prompt, isLoading, isDraggingOver, apiKey, requests,
                  loadsStarted, invocations, remoteCalls >>

\* handleImageUpload after its await: fileToBase64 resolved (ok) or rejected
UploadSettles(l, ok) ==
  /\ ~MicrotaskPending
  /\ l \in loads
  /\ loads' = loads \ {l}
  /\ UNCHANGED userActed
  /\ IF ok
     THEN /\ originalImage' = Some(fileToBase64(l.file))
          /\ originalFile' = Some(l.file)
          /\ editedImage' = Null
          /\ error' = Null
          /\ last' = [op |-> "loaded", load |-> l]
     ELSE /\ error' = Some(MsgLoadFailed)
          /\ last' = [op |-> "loadFailed", load |-> l]
          /\ UNCHANGED << originalImage, originalFile, editedImage >>
  /\ UNCHANGED << prompt, isLoading, isDraggingOver, apiKey, requests,
                  loadsStarted, invocations, remoteCalls >>

\* ------------------------------------------------------------------------
\* Prompt field and clear button
\* ------------------------------------------------------------------------
\* disabled attribute of the prompt field
PromptDisabled == ~Truthy(originalImage) \/ isLoading

\* onChange of the prompt field
SetPrompt(p) ==
  /\ ~MicrotaskPending
  /\ ~PromptDisabled
  /\ prompt' = p
  /\ last' = [op |-> "prompt", value |-> p]
  /\ userActed' = TRUE
  /\ UNCHANGED << originalImage, editedImage, isLoading, error, originalFile,
                  isDraggingOver, apiKey, loads, requests, loadsStarted,
                  invocations, remoteCalls >>

\* the clear button is rendered only over a source image
ClearShown == Truthy(originalImage)

\* variant of clearImage: the source file is left in place
clearImageKeepsFile ==
  /\ ~MicrotaskPending
  /\ ClearShown
  /\ originalImage' = Null
  /\ editedImage' = Null
  /\ error' = Null
  /\ last' = [op |-> "clear"]
  /\ userActed' = TRUE
  /\ UNCHANGED << originalFile, prompt, isLoading, isDraggingOver, apiKey, loads,
                  requests, loadsStarted, invocations, remoteCalls >>

\* variant of clearImage: the loading flag is reset with the rest
clearImageResetsLoading ==
  /\ ~MicrotaskPending
  /\ ClearShown
  /\ originalImage' = Null
  /\ originalFile' = Null
  /\ editedImage' = Null
  /\ error' = Null
  /\ isLoading' = FALSE
  /\ last' = [op |-> "clear"]
  /\ userActed' = TRUE
  /\ UNCHANGED << prompt, isDraggingOver, apiKey, loads, requests,
                  loadsStarted, invocations, remoteCalls >>

\* variant of clearImage: the edited image and the error are left in place
clearImageSourceOnly ==
  /\ ~MicrotaskPending
  /\ ClearShown
  /\ originalImage' = Null
  /\ originalFile' = Null
  /\ last' = [op |-> "clear"]
  /\ userActed' = TRUE
  /\ UNCHANGED << editedImage, error, prompt, isLoading, isDraggingOver, apiKey,
                  loads, requests, loadsStarted, invocations, remoteCalls >>

clearImage ==
  /\ ~MicrotaskPending
  /\ ClearShown
  /\ originalImage' = Null
  /\ originalFile' = Null
  /\ editedImage' = Null
  /\ error' = Null
  /\ last' = [op |-> "clear"]
  /\ userActed' = TRUE
  /\ UNCHANGED << prompt, isLoading, isDraggingOver, apiKey, loads, requests,
                  loadsStarted, invocations, remoteCalls >>

\* ------------------------------------------------------------------------
\* Submitting: handleGenerateClick, the generate button, the Enter key
\* ------------------------------------------------------------------------
\* variant of Base64Data: the element before the comma
Base64DataFirstPart(image) == Split(image, ",")[1]

\* originalImage.split(',')[1]
Base64Data(image) ==
  LET parts == Split(image, ",")
  IN  IF Len(parts) >= 2 THEN parts[2] ELSE Undefined

\* variant of EditedDataUrl: the media type is always image/png
EditedDataUrlPng(type, resultBase64) == "data:image/png;base64," \o resultBase64

\* `data:${type};base64,${resultBase64}`
EditedDataUrl(type, resultBase64) == "data:" \o type \o ";base64," \o resultBase64

\* variant of EditedAtSubmit: the shown image is kept during the call
EditedAtSubmitKept(shown) == shown

\* setEditedImage(null) before the call: whatever was shown is dropped
EditedAtSubmit(shown) == Null

\* variant of CredentialMissing: the credential is never checked
CredentialUnchecked == FALSE

\* editImageWithPrompt up to its first await: without a credential it throws
\* before any remote call, otherwise it issues generateContent
CredentialMissing == apiKey = ""

\* variant of handleGenerateClick: the edited image is dropped before the
\* inputs are validated
handleGenerateClickResetsFirst(via) ==
  IF ~Truthy(originalImage) \/ prompt = "" \/ originalFile = Null
  THEN /\ error' = Some(MsgValidation)
       /\ editedImage' = Null
       /\ last' = [op |-> "invalid", via |-> via]
       /\ userActed' = TRUE
       /\ UNCHANGED << originalImage, prompt, isLoading, originalFile,
                       requests, invocations, remoteCalls >>
  ELSE /\ invocations < MaxRequests
       /\ isLoading' = TRUE
       /\ userActed' = FALSE
       /\ editedImage' = EditedAtSubmit(editedImage)
       /\ error' = Null
       /\ invocations' = invocations + 1
       /\ remoteCalls' = IF CredentialMissing THEN remoteCalls ELSE remoteCalls + 1
       /\ LET r == [id              |-> invocations + 1,
                    base64ImageData |-> Base64Data(originalImage[1]),
                    mimeType        |-> originalFile[1].type,
                    prompt          |-> prompt,
                    file            |-> originalFile[1],
                    stage           |-> IF CredentialMissing THEN "thrown" ELSE "remote",
                    editedBefore    |-> editedImage]
          IN  /\ requests' = requests \cup {r}
              /\ last' = [op |-> "submit", via |-> via, req |-> r]
       /\ UNCHANGED << originalImage, prompt, originalFile >>

\* handleGenerateClick up to its await.  A request records the arguments of
\* the client call, the originalFile of the handler's closure, and (for
\* reference only) the edited image shown when the handler started.
handleGenerateClick(via) ==
  IF ~Truthy(originalImage) \/ prompt = "" \/ originalFile = Null
  THEN /\ error' = Some(MsgValidation)
       /\ last' = [op |-> "invalid", via |-> via]
       /\ userActed' = TRUE
       /\ UNCHANGED << originalImage, editedImage, prompt, isLoading, originalFile,
                       requests, invocations, remoteCalls >>
  ELSE /\ invocations < MaxRequests
       /\ isLoading' = TRUE
       /\ userActed' = FALSE
       /\ editedImage' = EditedAtSubmit(editedImage)
       /\ error' = Null
       /\ invocations' = invocations + 1
       /\ remoteCalls' = IF CredentialMissing THEN remoteCalls ELSE remoteCalls + 1
       /\ LET r == [id              |-> invocations + 1,
                    base64ImageData |-> Base64Data(originalImage[1]),
                    mimeType        |-> originalFile[1].type,
                    prompt          |-> prompt,
                    file            |-> originalFile[1],
                    stage           |-> IF CredentialMissing THEN "thrown" ELSE "remote",
                    editedBefore    |-> editedImage]
          IN  /\ requests' = requests \cup {r}
              /\ last' = [op |-> "submit", via |-> via, req |-> r]
       /\ UNCHANGED << originalImage, prompt, originalFile >>

\* variant of GenerateDisabled: the button stays enabled during a request
GenerateDisabledIgnoresLoading == ~Truthy(originalImage) \/ prompt = ""

\* disabled attribute of the generate button
GenerateDisabled == ~Truthy(originalImage) \/ prompt = "" \/ isLoading

ClickGenerate ==
  /\ ~MicrotaskPending
  /\ ~GenerateDisabled
  /\ handleGenerateClick("click")
  /\ UNCHANGED << isDraggingOver, apiKey, loads, loadsStarted >>

\* variant of KeySubmits: Enter submits an empty prompt too
KeySubmitsAnyPrompt(key) == key = "Enter" /\ Truthy(originalImage) /\ ~isLoading

\* the condition under which a key press submits
KeySubmits(key) == key = "Enter" /\ Truthy(originalImage) /\ prompt # "" /\ ~isLoading

Keys == { "Enter", "a" }

\* onKeyDown of the prompt field (a disabled field receives no key events)
handleKeyDown(key) ==
  /\ ~MicrotaskPending
  /\ ~PromptDisabled
  /\ IF KeySubmits(key)
     THEN handleGenerateClick("enter")
     ELSE /\ last' = [op |-> "key", key |-> key]
          /\ userActed' = TRUE
          /\ UNCHANGED << shell, requests, invocations, remoteCalls >>
  /\ UNCHANGED << isDraggingOver, apiKey, loads, loadsStarted >>

\* err instanceof Error ? err.message : MsgUnknown ; the client rejects
\* with Error objects only
ErrorMessage(o) == o.value

\* variant of GenerateSettles: the finally block is missing
GenerateSettlesKeepsLoading(r, o, cause) ==
  /\ r \in requests
  /\ requests' = requests \ {r}
  /\ IF o.ok
     THEN /\ editedImage' = Some(EditedDataUrl(r.file.type, o.value))
          /\ error' = error
     ELSE /\ error' = Some(GenerateFailedPrefix \o ErrorMessage(o))
          /\ editedImage' = editedImage
  /\ last' = [op |-> IF o.ok THEN "resolved" ELSE "rejected", req |-> r,
               outcome |-> o, cause |-> cause]
  /\ UNCHANGED << originalImage, prompt, originalFile, isDraggingOver, apiKey,
                  loads, loadsStarted, invocations, remoteCalls, isLoading, userActed >>

\* handleGenerateClick after its await: try continuation, catch, finally.
\* o is the outcome of the client call; cause is what made the client settle.
GenerateSettles(r, o, cause) ==
  /\ r \in requests
  /\ requests' = requests \ {r}
  /\ IF o.ok
     THEN /\ editedImage' = Some(EditedDataUrl(r.file.type, o.value))
          /\ error' = error
     ELSE /\ error' = Some(GenerateFailedPrefix \o ErrorMessage(o))
          /\ editedImage' = editedImage
  /\ isLoading' = FALSE
  /\ UNCHANGED userActed
  /\ last' = [op |-> IF o.ok THEN "resolved" ELSE "rejected", req |-> r,
               outcome |-> o, cause |-> cause]
  /\ UNCHANGED << originalImage, prompt, originalFile, isDraggingOver, apiKey,
                  loads, loadsStarted, invocations, remoteCalls >>

\* the remote call of a request settles and the client, then the shell, go on
RemoteSettles(r, remote) ==
  /\ ~MicrotaskPending
  /\ r \in requests
  /\ r.stage = "remote"
  /\ GenerateSettles(r, ClientOutcome(remote), remote)

\* the client threw for want of a credential: the shell's catch runs next
CredentialRejection(r) ==
  /\ r \in requests
  /\ r.stage = "thrown"
  /\ GenerateSettles(r, Rejected(MsgNoApiKey), [kind |-> "nokey"])

\* ------------------------------------------------------------------------
\* Downloading: handleDownloadClick
\* ------------------------------------------------------------------------
\* the characters of the class [\w\d_-]
WordChars ==
  { "a", "b", "c", "d", "e", "f", "g", "h", "i", "j", "k", "l", "m",
    "n", "o", "p", "q", "r", "s", "t", "u", "v", "w", "x", "y", "z",
    "A", "B", "C", "D", "E", "F", "G", "H", "I", "J", "K", "L", "M",
    "N", "O", "P", "Q", "R", "S", "T", "U", "V", "W", "X", "Y", "Z",
    "0", "1", "2", "3", "4", "5", "6", "7", "8", "9", "_", "-" }

\* the positions at which /(\.[\w\d_-]+)$/ matches in name: a dot followed,
\* up to the end of the name, by one or more characters of the class
ExtensionMatches(name) ==
  { i \in 1..Len(name) :
      /\ SubSeq(name, i, i) = "."
      /\ i < Len(name)
      /\ \A j \in (i + 1)..Len(name) : SubSeq(name, j, j) \in WordChars }

\* name.replace(/(\.[\w\d_-]+)$/i, '_edited$1'): the leftmost match is
\* replaced; a name without a match is returned as it is
ReplaceExtension(name) ==
  IF ExtensionMatches(name) = {} THEN name
  ELSE LET i == CHOOSE k \in ExtensionMatches(name) :
                  \A m \in ExtensionMatches(name) : k <= m
       IN  SubSeq(name, 1, i - 1) \o "_edited" \o SubSeq(name, i, Len(name))

DefaultDownloadName == "edited-image.png"

\* originalFile?.name.replace(...) || 'edited-image.png'
DownloadFileName(fileOpt) ==
  LET replaced == IF fileOpt = Null THEN Null ELSE Some(ReplaceExtension(fileOpt[1].name))
  IN  IF Truthy(replaced) THEN replaced[1] ELSE DefaultDownloadName

\* disabled attribute of the download button
DownloadDisabled == ~Truthy(editedImage) \/ isLoading

\* a click on the download button: the link that is built and clicked
handleDownloadClick ==
  /\ ~MicrotaskPending
  /\ ~DownloadDisabled
  /\ Truthy(editedImage)
  /\ last' = [op |-> "download", href |-> editedImage[1],
               download |-> DownloadFileName(originalFile)]
  /\ userActed' = TRUE
  /\ UNCHANGED << shell, isDraggingOver, apiKey, loads, requests, loadsStarted,
                  invocations, remoteCalls >>

\* ------------------------------------------------------------------------
\* Specification
\* ------------------------------------------------------------------------
FileOptions == { Null } \cup { Some(f) : f \in Files }

Next ==
  \/ \E fopt \in FileOptions : handleFileChange(fopt)
  \/ \E fopt \in FileOptions : handlePaste(fopt)
  \/ handleDragOver
  \/ handleDragLeave
  \/ \E fopt \in FileOptions : handleDrop(fopt)
  \/ \E l \in loads : \E ok \in BOOLEAN : UploadSettles(l, ok)
  \/ \E p \in Prompts : SetPrompt(p)
  \/ clearImage
  \/ ClickGenerate
  \/ \E key \in Keys : handleKeyDown(key)
  \/ \E r \in requests : \E remote \in RemoteOutcomes : RemoteSettles(r, remote)
  \/ \E r \in requests : CredentialRejection(r)
  \/ handleDownloadClick

Spec == Init /\ [][Next]_vars

\* The handler under direct invocation: handleGenerateClick is called
\* without the guard of the button or of the Enter key in front of it, in
\* any state of the shell in which one of its inputs is missing.
InvokeGenerate ==
  /\ ~MicrotaskPending
  /\ ~Truthy(originalImage) \/ prompt = "" \/ originalFile = Null
  /\ handleGenerateClick("direct")
  /\ UNCHANGED << isDraggingOver, apiKey, loads, loadsStarted >>

NextDirect ==
  \/ Next
  \/ InvokeGenerate

SpecDirect == Init /\ [][NextDirect]_vars

\* Every outstanding request eventually resolves or fails: the remote call
\* of a request eventually settles, and a runnable continuation runs.
SpecLive ==
  /\ Spec
  /\ WF_vars(\E r \in requests : \E remote \in RemoteOutcomes : RemoteSettles(r, remote))
  /\ WF_vars(\E r \in requests : CredentialRejection(r))

\* ------------------------------------------------------------------------
\* The download name over file names at large: an edited image is shown
\* over a file whose name is any string over NameChars of at most
\* MaxNameLen characters, or over no file, and the download button is used.
\* ------------------------------------------------------------------------
MaxNameLen == 3
NameChars == { "p", ".", "-", " " }

RECURSIVE Join(_)
Join(chars) == IF chars = << >> THEN "" ELSE Head(chars) \o Join(Tail(chars))

FileNames == { Join(t) : t \in UNION { [1..n -> NameChars] : n \in 0..MaxNameLen } }

NamedFiles == { [name |-> n, type |-> "image/png", payload |-> "QUJD"] : n \in FileNames }

InitDownload ==
  /\ originalFile \in { Null } \cup { Some(f) : f \in NamedFiles }
  /\ originalImage = IF originalFile = Null THEN Null ELSE Some(fileToBase64(originalFile[1]))
  /\ editedImage = Some(EditedDataUrl("image/png", "UkVT"))
  /\ prompt = "add a hat"
  /\ isLoading = FALSE
  /\ error = Null
  /\ isDraggingOver = FALSE
  /\ apiKey = "secret"
  /\ loads = {}
  /\ requests = {}
  /\ loadsStarted = 1
  /\ invocations = 1
  /\ remoteCalls = 1
  /\ last = [op |-> "init"]
  /\ userActed = FALSE

NextDownload == handleDownloadClick

SpecDownload == InitDownload /\ [][NextDownload]_vars

\* ------------------------------------------------------------------------
\* Properties
\* ------------------------------------------------------------------------

\* C1: in every reachable state at most one edit request to the Edit
\* Client is outstanding.
C1_AtMostOneOutstanding == Cardinality(requests) <= 1

\* a second request is outstanding alone, with image and prompt in place:
\* only the loading flag stands between the user and a concurrent submit
C1_Witness ==
  /\ Cardinality(requests) = 1
  /\ invocations = 2
  /\ Truthy(originalImage)
  /\ prompt # ""

\* C2 (as stated): after a failed request has been handled the error is
\* non-empty and the edited image is what it was just before the submit.
C2_EditedRestoredOnFailure ==
  last.op = "rejected" =>
    /\ Truthy(error)
    /\ editedImage = last.req.editedBefore

\* C2 (amended): after a failed request has been handled the error is
\* non-empty (the failure message) and the edited image is empty, the
\* submit having cleared whatever was shown before it.
C2_EditedEmptyOnFailure ==
  last.op = "rejected" =>
    /\ Truthy(error)
    /\ error = Some(GenerateFailedPrefix \o last.outcome.value)
    /\ editedImage = Null

\* a request failed whose submit happened while an edited image was shown
C2_Witness == last.op = "rejected" /\ last.req.editedBefore # Null

\* C3: immediately after clear the source image, the source file, the
\* edited image and the error are all empty.
C3_ClearEmptiesAll ==
  last.op = "clear" =>
    /\ originalImage = Null
    /\ originalFile = Null
    /\ editedImage = Null
    /\ error = Null

\* clear has run while a request was in flight
C3_Witness == last.op = "clear" /\ requests # {} /\ isLoading

\* C4: the generate button and the Enter key path are disabled exactly when
\* no image is loaded, or the prompt is empty, or a request is in flight.
C4_SubmitDisabledExactly ==
  LET blocked == originalImage = Null \/ prompt = "" \/ requests # {}
  IN  /\ GenerateDisabled <=> blocked
      /\ (PromptDisabled \/ ~KeySubmits("Enter")) <=> blocked

\* image and prompt are in place and the control is disabled by the request
\* in flight alone
C4_Witness ==
  /\ originalImage # Null
  /\ prompt # ""
  /\ requests # {}
  /\ GenerateDisabled
  /\ ~KeySubmits("Enter")

\* C5: a result applied to the edited image is the result of the most
\* recently initiated request.
C5_AppliedResultIsLatest ==
  last.op = "resolved" =>
    /\ last.req.id = invocations
    /\ editedImage = Some("data:" \o last.req.mimeType \o ";base64," \o last.outcome.value)

\* the result of a second request has been applied
C5_Witness == last.op = "resolved" /\ last.req.id = 2

\* C6 (as stated): once a request has resolved with D the edited image is
\* data:<T>;base64,D, T the media type of the file loaded at submit time,
\* and the error is empty.
C6_ResolvedNoError ==
  last.op = "resolved" =>
    /\ editedImage = Some("data:" \o last.req.file.type \o ";base64," \o last.outcome.value)
    /\ error = Null

\* C6 (amended): the resolution of a request with D sets the edited image
\* to data:<T>;base64,D, T the media type of the file loaded at submit
\* time, and leaves the error as it was: empty, or the load-failure message
\* of an image load that failed while the request was in flight.
C6_ResolvedKeepsError ==
  [][ (last'.op = "resolved" /\ requests' # requests) =>
        /\ editedImage' = Some("data:" \o last'.req.file.type \o ";base64," \o last'.outcome.value)
        /\ last'.outcome.value = FirstInlineData(last'.cause.parts)[1]
        /\ error' = error
        /\ error \in { Null, Some(MsgLoadFailed) } ]_vars

\* a request has resolved after an image load failed during its flight
C6_Witness ==
  /\ last.op = "resolved"
  /\ error = Some(MsgLoadFailed)
  /\ editedImage = Some("data:image/jpeg;base64,T1VU")

\* C7 (as stated): a submit causes exactly one client invocation carrying
\* the payload, the media type and the prompt, and every invocation makes
\* exactly one remote call.
C7_OneRemoteCallEach ==
  /\ last.op = "submit" =>
       /\ requests = { last.req }
       /\ last.req.id = invocations
       /\ last.req.base64ImageData = originalFile[1].payload
       /\ last.req.mimeType = originalFile[1].type
       /\ last.req.prompt = prompt
  /\ remoteCalls = invocations

\* C7 (amended): a submit causes exactly one client invocation carrying the
\* payload of the loaded image, the media type of the loaded file and the
\* prompt; an invocation makes one remote call when the credential is
\* present and none when it is absent, and a failure is never retried.
C7_AtMostOneRemoteCallEach ==
  /\ last.op = "submit" =>
       /\ requests = { last.req }
       /\ last.req.id = invocations
       /\ last.req.base64ImageData = originalFile[1].payload
       /\ last.req.mimeType = originalFile[1].type
       /\ last.req.prompt = prompt
  /\ remoteCalls = IF apiKey = "" THEN 0 ELSE invocations

\* a second submit, after the first request failed, has made the second
\* remote call
C7_Witness ==
  /\ last.op = "submit"
  /\ invocations = 2
  /\ remoteCalls = 2
  /\ error = Null
  /\ last.req.base64ImageData = "eHl6"

\* C8: immediately after a successful load the source image is the encoding
\* of the loaded file, the source file is that file, and the edited image
\* and the error are empty.
C8_LoadSetsSourceClearsRest ==
  last.op = "loaded" =>
    /\ originalImage = Some(fileToBase64(last.load.file))
    /\ originalFile = Some(last.load.file)
    /\ editedImage = Null
    /\ error = Null

\* a load has completed while a request was in flight
C8_Witness == last.op = "loaded" /\ requests # {} /\ isLoading

\* C9: the client does not report a response without image data with the
\* prefix of a remote-call failure.
C9_NoImageNotWrapped ==
  (last.op = "rejected" /\ last.cause.kind = "response") =>
    ~StartsWith(last.outcome.value, GeminiErrorPrefix)

\* C10: without a credential the client fails with the missing-credential
\* error and issues no remote call, and the shell then shows a non-empty
\* error with the loading flag reset.
C10_MissingCredential ==
  apiKey = "" =>
    /\ remoteCalls = 0
    /\ \A r \in requests : r.stage = "thrown"
    /\ last.op # "resolved"
    /\ last.op = "rejected" =>
         /\ last.outcome = Rejected(MsgNoApiKey)
         /\ error = Some(GenerateFailedPrefix \o MsgNoApiKey)
         /\ Truthy(error)
         /\ isLoading = FALSE
         /\ requests = {}

\* a submit without credential has been rejected and handled
C10_Witness == apiKey = "" /\ last.op = "rejected" /\ invocations = 1

\* C11 (as stated): when a request has failed and no user event was handled
\* while it was in flight, source image, source file and prompt are those
\* of the submit and the submit control is enabled again.
C11_FailureKeepsInputs ==
  (last.op = "rejected" /\ ~userActed) =>
    /\ originalFile = Some(last.req.file)
    /\ originalImage # Null
    /\ Base64Data(originalImage[1]) = last.req.base64ImageData
    /\ prompt = last.req.prompt
    /\ ~GenerateDisabled

\* C11 (amended): when a request fails and nothing happened while it was in
\* flight (no user event was handled and no image load completed), the
\* failure leaves source image, source file and prompt as the submit left
\* them and the submit control is enabled again.
C11_FailureKeepsInputsQuiet ==
  [][ (last.op = "submit" /\ last'.op = "rejected") =>
        /\ originalImage' = originalImage
        /\ originalFile' = originalFile
        /\ originalFile' = Some(last'.req.file)
        /\ prompt' = prompt
        /\ prompt' = last'.req.prompt
        /\ isLoading' = FALSE
        /\ originalImage' # Null /\ prompt' # ""
        /\ ~GenerateDisabled' ]_vars

\* a remote failure has been handled with no user event since the submit,
\* and the control is enabled for a resubmission of the same inputs
C11_Witness ==
  /\ last.op = "rejected"
  /\ last.cause.kind = "error"
  /\ ~userActed
  /\ originalFile = Some(last.req.file)
  /\ prompt = last.req.prompt
  /\ ~GenerateDisabled

\* the four error kinds, as the shell shows them
ErrorShown ==
  { GenerateFailedPrefix \o MsgNoApiKey,
    GenerateFailedPrefix \o GeminiErrorPrefix \o "quota exceeded",
    GenerateFailedPrefix \o GeminiErrorPrefix \o MsgTypeError,
    GenerateFailedPrefix \o MsgUnexpected,
    GenerateFailedPrefix \o GeminiErrorPrefix \o MsgNoImageData,
    MsgLoadFailed }

\* C12 (as stated): every error ends in a state with a non-empty error from
\* which clear is possible; submit is possible exactly when an image is
\* loaded, the prompt is non-empty and no request is in flight; a submit or
\* a successful load empties the error.
C12_ErrorsNotFatalClearAlways ==
  /\ last.op \in { "rejected", "loadFailed" } =>
       /\ Truthy(error)
       /\ error[1] \in ErrorShown
       /\ ENABLED clearImage
  /\ error # Null =>
       (~GenerateDisabled <=> (originalImage # Null /\ prompt # "" /\ requests = {}))
  /\ last.op \in { "submit", "loaded" } => error = Null

\* C12 (amended): every error ends in a state with a non-empty error from
\* which clear is possible whenever a source image is loaded; submit is
\* possible exactly when an image is loaded, the prompt is non-empty and no
\* request is in flight; a submit or a successful load empties the error.
C12_ErrorsNotFatal ==
  /\ last.op \in { "rejected", "loadFailed" } =>
       /\ Truthy(error)
       /\ error[1] \in ErrorShown
       /\ originalImage # Null => ENABLED clearImage
       /\ originalImage = Null => ~ENABLED clearImage
  /\ error # Null =>
       (~GenerateDisabled <=> (originalImage # Null /\ prompt # "" /\ requests = {}))
  /\ last.op \in { "submit", "loaded" } => error = Null

\* a load has failed over a loaded image and a typed prompt: the error is
\* shown, and both clear and submit are available
C12_Witness ==
  /\ last.op = "loadFailed"
  /\ error = Some(MsgLoadFailed)
  /\ ENABLED clearImage
  /\ ~GenerateDisabled
  /\ invocations = 1

\* the position of the last dot of a name, 0 when it has none
LastDot(name) ==
  IF \E i \in 1..Len(name) : SubSeq(name, i, i) = "."
  THEN CHOOSE i \in 1..Len(name) :
         /\ SubSeq(name, i, i) = "."
         /\ \A j \in (i + 1)..Len(name) : SubSeq(name, j, j) # "."
  ELSE 0

\* C13: the download name is "edited-image.png" when no original name is
\* available; otherwise it is the original name with "_edited" inserted
\* immediately before its extension, and a name without an extension still
\* carries the "_edited" suffix or is replaced by the default.
C13_DownloadNameCarriesSuffix ==
  last.op = "download" =>
    LET name == IF originalFile = Null THEN "" ELSE originalFile[1].name
        d    == LastDot(name)
        got  == last.download
    IN  IF name = "" THEN got = DefaultDownloadName
        ELSE IF ExtensionMatches(name) # {}
        THEN got = SubSeq(name, 1, d - 1) \o "_edited" \o SubSeq(name, d, Len(name))
        ELSE \/ got = DefaultDownloadName
             \/ \E i \in 0..Len(name) :
                  got = SubSeq(name, 1, i) \o "_edited" \o SubSeq(name, i + 1, Len(name))

\* C14: a shown edited image implies a loaded source image, and a result
\* that is applied is the result of editing the source image loaded at
\* that moment, also when the source was cleared or replaced in flight.
C14_EditedBelongsToSource ==
  /\ editedImage # Null => originalImage # Null
  /\ last.op = "resolved" =>
       /\ originalFile = Some(last.req.file)
       /\ originalImage # Null
       /\ Base64Data(originalImage[1]) = last.req.base64ImageData

\* C15: the loading flag is true exactly when a request is outstanding; it
\* is set by an accepted submit, reset by a resolution and by a failure,
\* and changed by nothing else; and, every outstanding request eventually
\* settling, the shell eventually leaves the generating state.
C15_LoadingIffOutstanding ==
  /\ [](isLoading <=> requests # {})
  /\ [][ /\ last'.op = "submit" => isLoading'
         /\ last'.op \in { "resolved", "rejected" } => ~isLoading'
         /\ last'.op \notin { "submit", "resolved", "rejected" } => isLoading' = isLoading
       ]_vars
  /\ (isLoading ~> ~isLoading)

\* a request has failed after user events were handled during its flight,
\* and the loading flag is reset
C15_Witness ==
  /\ last.op = "rejected"
  /\ userActed
  /\ ~isLoading
  /\ requests = {}
  /\ originalImage = Null

\* C16: source image and source file are both empty, or both present with
\* the image being the encoding of that very file (its media type and its
\* payload).
C16_SourcePaired ==
  \/ originalImage = Null /\ originalFile = Null
  \/ /\ originalImage # Null /\ originalFile # Null
     /\ originalImage[1] = fileToBase64(originalFile[1])
     /\ StartsWith(originalImage[1], "data:" \o originalFile[1].type \o ";")
     /\ Base64Data(originalImage[1]) = originalFile[1].payload
     /\ \A f \in Files : originalImage[1] = fileToBase64(f) => f = originalFile[1]

\* a second file has replaced the first while a request on the first was in
\* flight, and the request has completed since
C16_Witness ==
  /\ last.op \in { "resolved", "rejected" }
  /\ originalFile # Null
  /\ originalFile[1] # last.req.file
  /\ originalImage = Some(fileToBase64(originalFile[1]))

\* C17: when loads were started before any of them had finished, then once
\* all of them have completed the source image and file are those of the
\* most recently started load, whatever the order of completion.  Stated on
\* the step that completes the last pending load: the most recently started
\* load has just completed while an earlier one was still encoding, and the
\* earlier one now completes.
C17_LatestStartedLoadWins ==
  [][ ( /\ last.op = "loaded"
        /\ last.load.id = loadsStarted
        /\ \E l \in loads : loads = {l} /\ l.id < last.load.id
        /\ loads' = {}
        /\ loadsStarted' = loadsStarted )
      => /\ originalFile' = Some(last.load.file)
         /\ originalImage' = Some(fileToBase64(last.load.file)) ]_vars

\* C18: a submit invoked while the source image, the source file or the
\* prompt is missing sets the validation message and does nothing else: no
\* request is issued, and the loading flag, the edited image, the source
\* image and file and the prompt are unchanged.
C18_InvalidSubmitOnlySetsError ==
  [][ last'.op = "invalid" =>
        /\ originalImage = Null \/ prompt = "" \/ originalFile = Null
        /\ error' = Some(MsgValidation)
        /\ requests' = requests
        /\ invocations' = invocations
        /\ remoteCalls' = remoteCalls
        /\ isLoading' = isLoading
        /\ editedImage' = editedImage
        /\ originalImage' = originalImage
        /\ originalFile' = originalFile
        /\ prompt' = prompt ]_vars

\* a submit with an empty prompt has been turned down while an edited image
\* was shown
C18_Witness ==
  /\ last.op = "invalid"
  /\ error = Some(MsgValidation)
  /\ editedImage # Null
  /\ prompt = ""

\* C19: a load whose file cannot be encoded sets the load-failure message
\* and leaves source image, source file, edited image, prompt and loading
\* flag as they were; a load with no file changes nothing.
C19_FailedLoadOnlySetsError ==
  [][ /\ last'.op = "loadFailed" =>
           /\ error' = Some(MsgLoadFailed)
           /\ originalImage' = originalImage
           /\ originalFile' = originalFile
           /\ editedImage' = editedImage
           /\ prompt' = prompt
           /\ isLoading' = isLoading
      /\ (last'.op = "fileChange" /\ last'.file = Null) =>
           /\ UNCHANGED << originalImage, editedImage, prompt, isLoading, error,
                           originalFile, isDraggingOver >>
           /\ UNCHANGED << loads, requests, loadsStarted, invocations, remoteCalls >>
    ]_vars

\* a load has failed over a loaded image with its edited image shown
C19_Witness ==
  /\ last.op = "loadFailed"
  /\ error = Some(MsgLoadFailed)
  /\ originalImage # Null
  /\ editedImage # Null

====
